---- MODULE Spec2Model ----
(***************************************************************************)
(* The SS.LV conversation scraper and its Pipedrive reconciliation         *)
(* (process.js, all-messages variant).  Strings are sequences of           *)
(* one-character strings, so that String.includes, split, trim and         *)
(* toLowerCase are computed and not assumed.  Fixed markup of the          *)
(* templates is abbreviated to a few of its literal characters.            *)
(***************************************************************************)
EXTENDS Integers, Sequences, FiniteSets, TLC

VARIABLES
  fn, arg, ret,        \* a pure function applied on its own: which, its input, its result
  persons, deals, notes, dealFields,   \* the remote record store (Pipedrive)
  response,            \* what the HTTP GET of the conversation page returns
  env,                 \* argv[3], PIPEDRIVE_API_TOKEN and the cookie file
  argv4,               \* process.argv[4], the contact display name
  pc, run,             \* per run of main: its await point and its local variables
  calls                \* per run: the gateway requests it has issued, in order

vars == <<fn, arg, ret, persons, deals, notes, dealFields, response, env, argv4, pc, run, calls>>
storeVars == <<persons, deals, notes, dealFields>>
mainVars == <<persons, deals, notes, dealFields, response, env, argv4, pc, run, calls>>
pureVars == <<fn, arg, ret>>

\* ------------------------------------------------------------------ bounds
MaxBody == 4       \* date markers and message blocks in a generated container
MaxScripts == 3    \* _out_text directives in a generated container
MaxItems == 3      \* items of a generated search result
MaxRuns == 2       \* sequential runs of main
MaxAttempts == 3   \* runs of main on one thread when requests may fail
MaxMsgs == 2       \* messages of the conversation that main reconciles

\* --------------------------------------------------------- program constants
FirstMessagePrefix == 50   \* firstMessage.slice(0, 50) in dealHasFirstMessageNote
ChatMinLength == 50
SOURCE_CHANNEL_FIELD_ID == 36
SOURCE_COMPANY_FIELD_ID == 49

\* ------------------------------------------------------------------ strings
Min(a, b) == IF a < b THEN a ELSE b

\* hay.includes(needle)
Includes(hay, needle) ==
  \E i \in 0..(Len(hay) - Len(needle)) : SubSeq(hay, i + 1, i + Len(needle)) = needle

\* s.slice(0, n)
Slice0(s, n) == SubSeq(s, 1, Min(n, Len(s)))

\* c.toLowerCase() for one character; the alphabet of the model has three capitals
LowerChar(c) ==
  CASE c = "J" -> "j"
    [] c = "A" -> "a"
    [] c = "B" -> "b"
    [] OTHER -> c
ToLowerCase(s) == [i \in 1..Len(s) |-> LowerChar(s[i])]

\* s.split(' ')[0]: the characters before the first space
SplitFirst(s) ==
  LET sp == {i \in 1..Len(s) : s[i] = " "}
  IN  IF sp = {} THEN s
      ELSE SubSeq(s, 1, (CHOOSE i \in sp : \A j \in sp : i <= j) - 1)

\* s.trim(), spaces being the only white space of the alphabet
Trim(s) ==
  LET ns == {i \in 1..Len(s) : s[i] # " "}
  IN  IF ns = {} THEN <<>>
      ELSE SubSeq(s, CHOOSE i \in ns : \A j \in ns : i <= j,
                     CHOOSE i \in ns : \A j \in ns : i >= j)

\* parseInt(id) of a string of decimal digits
DigitValue(c) ==
  CASE c = "0" -> 0 [] c = "1" -> 1 [] c = "2" -> 2 [] c = "3" -> 3 [] c = "4" -> 4
    [] c = "5" -> 5 [] c = "6" -> 6 [] c = "7" -> 7 [] c = "8" -> 8 [] c = "9" -> 9
RECURSIVE ParseInt(_)
ParseInt(s) ==
  IF s = <<>> THEN 0
  ELSE 10 * ParseInt(SubSeq(s, 1, Len(s) - 1)) + DigitValue(s[Len(s)])

\* the order of two digit strings as strings (what sort() without a comparator uses)
RECURSIVE StringLess(_, _)
StringLess(a, b) ==
  IF b = <<>> THEN FALSE
  ELSE IF a = <<>> THEN TRUE
  ELSE IF a[1] # b[1] THEN DigitValue(a[1]) < DigitValue(b[1])
  ELSE StringLess(Tail(a), Tail(b))

\* ------------------------------------------------------- the conversation page
\* The chat container is a sequence of elements in document order; an element's
\* offset is its position.  Three kinds: a date header <div class="td15">, a
\* message block <a name="id"></a><div ...> ... <td class="td15">time</td>, and an
\* inline directive <script>_out_text("text", "mail_content_id");</script>.
SentColor == <<"#", "d", "3">>
OtherColor == <<"#", "f", "f">>
UnknownDate == <<"U", "n", "k">>

DateEl(d) == [kind |-> "date", id |-> <<>>, text |-> d, time |-> <<>>, bg |-> <<>>]
BlockEl(i, t, c) == [kind |-> "block", id |-> i, text |-> <<>>, time |-> t, bg |-> c]
ScriptEl(i, x) == [kind |-> "script", id |-> i, text |-> x, time |-> <<>>, bg |-> <<>>]

\* characters of an element's markup: the fixed part its regular expression needs
ElemLength(e) ==
  CASE e.kind = "date" -> 24 + Len(e.text)
    [] e.kind = "block" -> 40 + Len(e.id) + Len(e.bg) + Len(e.time)
    [] e.kind = "script" -> 47 + Len(e.text) + Len(e.id)
RECURSIVE ChatLength(_)
ChatLength(chat) ==
  IF chat = <<>> THEN 0 ELSE ElemLength(Head(chat)) + ChatLength(Tail(chat))

\* positions of the elements of one kind, ascending (matchAll / exec order)
RECURSIVE PositionsFrom(_, _, _)
PositionsFrom(chat, kind, p) ==
  IF p > Len(chat) THEN <<>>
  ELSE IF chat[p].kind = kind THEN <<p>> \o PositionsFrom(chat, kind, p + 1)
  ELSE PositionsFrom(chat, kind, p + 1)
DateMatches(chat) == PositionsFrom(chat, "date", 1)

\* messageTexts.get(id) || '': the last directive for the id wins
MessageTextsFirst(chat, id) ==
  LET ks == {k \in 1..Len(chat) : chat[k].kind = "script" /\ chat[k].id = id}
  IN  IF ks = {} THEN <<>>
      ELSE chat[CHOOSE k \in ks : \A j \in ks : k <= j].text
MessageTexts(chat, id) ==
  LET ks == {k \in 1..Len(chat) : chat[k].kind = "script" /\ chat[k].id = id}
  IN  IF ks = {} THEN <<>>
      ELSE chat[CHOOSE k \in ks : \A j \in ks : j <= k].text

\* chatContent.indexOf(dateMatches[dateIndex][0]): the offset of the FIRST
\* occurrence of the header's markup, which is that of the first header with the
\* same text
DatePos(chat, k) ==
  CHOOSE p \in 1..Len(chat) :
    /\ chat[p].kind = "date" /\ chat[p].text = chat[k].text
    /\ \A q \in 1..(p - 1) : ~(chat[q].kind = "date" /\ chat[q].text = chat[k].text)

\* the inner while loop: advance the date pointer past the headers before `index`
RECURSIVE AdvanceDate(_, _, _, _, _)
AdvanceDate(chat, dateMatches, dateIndex, currentDate, index) ==
  IF dateIndex <= Len(dateMatches) /\ DatePos(chat, dateMatches[dateIndex]) < index
  THEN AdvanceDate(chat, dateMatches, dateIndex + 1,
                   Trim(chat[dateMatches[dateIndex]].text), index)
  ELSE [dateIndex |-> dateIndex, currentDate |-> currentDate]

\* the outer while loop over the message blocks, in document order
RECURSIVE ScanBlocks(_, _, _, _, _)
ScanBlocks(chat, p, dateIndex, currentDate, messages) ==
  IF p > Len(chat) THEN messages
  ELSE IF chat[p].kind # "block"
  THEN ScanBlocks(chat, p + 1, dateIndex, currentDate, messages)
  ELSE
    LET adv == AdvanceDate(chat, DateMatches(chat), dateIndex, currentDate, p)
        text == MessageTexts(chat, chat[p].id)
    IN  IF text = <<>>
        THEN ScanBlocks(chat, p + 1, adv.dateIndex, adv.currentDate, messages)
        ELSE ScanBlocks(chat, p + 1, adv.dateIndex, adv.currentDate,
               Append(messages,
                 [id |-> chat[p].id,
                  text |-> text,
                  time |-> Trim(chat[p].time),
                  date |-> IF adv.currentDate = <<>> THEN UnknownDate
                           ELSE adv.currentDate,
                  direction |-> IF Includes(chat[p].bg, SentColor) THEN "sent"
                                ELSE "received"]))

\* the comparator of messages.sort: a goes after b
AfterLexicographic(a, b) == StringLess(b.id, a.id)
After(a, b) == ParseInt(a.id) - ParseInt(b.id) > 0

\* messages.sort(cmp): a stable sort, by insertion
RECURSIVE InsertSorted(_, _)
InsertSorted(sorted, m) ==
  IF sorted = <<>> THEN <<m>>
  ELSE IF After(sorted[Len(sorted)], m)
  THEN Append(InsertSorted(SubSeq(sorted, 1, Len(sorted) - 1), m), sorted[Len(sorted)])
  ELSE Append(sorted, m)
RECURSIVE SortMessages(_)
SortMessages(messages) ==
  IF messages = <<>> THEN <<>>
  ELSE InsertSorted(SortMessages(SubSeq(messages, 1, Len(messages) - 1)),
                    messages[Len(messages)])

Failure(msg) == [ok |-> FALSE, error |-> msg, messages |-> <<>>]
Success(messages) == [ok |-> TRUE, error |-> "", messages |-> messages]

\* fetchAllMessages, from the response of the fetch on
fetchAllMessagesLoginLast(resp) ==
  IF ~resp.hasChatDiv THEN Failure("Could not find chat div in HTML")
  ELSE IF ChatLength(resp.chat) < ChatMinLength THEN Failure("Chat div is empty")
  ELSE IF resp.loginUrl THEN Failure("SS.LV session expired - cookies are stale")
  ELSE Success(SortMessages(ScanBlocks(resp.chat, 1, 1, <<>>, <<>>)))
fetchAllMessagesNoMinimum(resp) ==
  IF resp.loginUrl THEN Failure("SS.LV session expired - cookies are stale")
  ELSE IF ~resp.hasChatDiv THEN Failure("Could not find chat div in HTML")
  ELSE Success(SortMessages(ScanBlocks(resp.chat, 1, 1, <<>>, <<>>)))
fetchAllMessages(resp) ==
  IF resp.loginUrl THEN Failure("SS.LV session expired - cookies are stale")
  ELSE IF ~resp.hasChatDiv THEN Failure("Could not find chat div in HTML")
  ELSE IF ChatLength(resp.chat) < ChatMinLength THEN Failure("Chat div is empty")
  ELSE Success(SortMessages(ScanBlocks(resp.chat, 1, 1, <<>>, <<>>)))

Page(chat) == [loginUrl |-> FALSE, hasChatDiv |-> TRUE, chat |-> chat]

\* ------------------------------------------------------------ the note format
DivOpen == <<"<", "d", ">">>
DivClose == <<"<", "/", "d", ">">>

\* formatNoteHtml: the template with the message's fields interpolated
formatNoteHtmlTruncated(message) ==
  DivOpen \o (IF message.direction = "sent" THEN <<"S">> ELSE <<"R">>)
    \o <<"[">> \o message.time \o <<" ">> \o message.date \o <<"]">>
    \o DivOpen \o Slice0(message.text, 1) \o DivClose \o DivClose
formatNoteHtml(message) ==
  DivOpen \o (IF message.direction = "sent" THEN <<"S">> ELSE <<"R">>)
    \o <<"[">> \o message.time \o <<" ">> \o message.date \o <<"]">>
    \o DivOpen \o message.text \o DivClose \o DivClose

\* ------------------------------------------------------------ contact matching
NullItem == [id |-> 0, name |-> <<>>]
Unknown == <<"U", "n", "k", "n", "o", "w", "n">>

\* contactPersonName and contactPersonFirstName, from process.argv[4]
contactPersonName(a) == Trim(IF a = <<>> THEN Unknown ELSE a)
contactPersonFirstName(a) ==
  IF SplitFirst(contactPersonName(a)) # <<>> THEN SplitFirst(contactPersonName(a))
  ELSE contactPersonName(a)

\* the predicate of items.find
NameMatchesPrefix(name, firstName) ==
  LET p == ToLowerCase(SplitFirst(name))
      f == ToLowerCase(firstName)
  IN  Len(p) <= Len(f) /\ SubSeq(f, 1, Len(p)) = p
NameMatches(name, firstName) ==
  ToLowerCase(SplitFirst(name)) = ToLowerCase(firstName)

\* items.find(...)?.item || null
FindItem(items, firstName) ==
  LET hits == {k \in 1..Len(items) : NameMatches(items[k].name, firstName)}
  IN  IF hits = {} THEN NullItem
      ELSE items[CHOOSE k \in hits : \A j \in hits : k <= j]

\* ------------------------------------------------- pure functions on their own
SeqsUpTo(S, n) == UNION {[1..k -> S] : k \in 0..n}

Ids == {<<"3">>, <<"5">>, <<"1", "0">>}
Dates == {<<"M">>, <<"T">>}
Times == {<<"1">>, <<"2">>}
Texts == {<<"a">>, <<"a", "b">>, <<"d">>}

BodyElems ==
  {DateEl(d) : d \in Dates}
    \cup {BlockEl(<<"3">>, <<"1">>, SentColor), BlockEl(<<"5">>, <<" ", "2">>, OtherColor),
          BlockEl(<<"1", "0">>, <<"2">>, SentColor)}
ScriptElems ==
  {ScriptEl(<<"3">>, <<"a">>), ScriptEl(<<"5">>, <<"a", "b">>),
   ScriptEl(<<"1", "0">>, <<"a">>), ScriptEl(<<"3">>, <<>>)}

\* anchors are unique in a page: <a name="id"> names the message
UniqueAnchors(chat) ==
  \A p, q \in 1..Len(chat) :
    (chat[p].kind = "block" /\ chat[q].kind = "block" /\ chat[p].id = chat[q].id) => p = q

FailingPages ==
  {[loginUrl |-> TRUE, hasChatDiv |-> FALSE, chat |-> <<>>],
   [loginUrl |-> FALSE, hasChatDiv |-> FALSE, chat |-> <<>>]}

GeneratedMessages ==
  [id : Ids, text : Texts, time : Times, date : Dates \cup {UnknownDate},
   direction : {"sent", "received"}]

Names ==
  {<<"J", "a">>, <<"j", "a", " ", "B">>, <<"J", "a", "b">>, <<"J">>, <<"b", " ", "J", "a">>}
Argv4s ==
  {<<"j", "a">>, <<"J", "A", " ", "b">>, <<" ", "J", "a", " ">>, <<"J">>, <<>>}
ItemsOf(names) == [k \in 1..Len(names) |-> [id |-> k, name |-> names[k]]]

MainIdle ==
  /\ persons = <<>> /\ deals = <<>> /\ notes = <<>> /\ dealFields = {}
  /\ response = Page(<<>>) /\ argv4 = <<>>
  /\ env = [emailSender |-> "", apiToken |-> FALSE, cookies |-> FALSE]
  /\ pc = <<>> /\ run = <<>> /\ calls = <<>>

InitParse ==
  /\ fn = "none" /\ ret = <<>> /\ MainIdle
  /\ \/ arg \in FailingPages
     \/ \E body \in SeqsUpTo(BodyElems, MaxBody), scripts \in SeqsUpTo(ScriptElems, MaxScripts) :
          UniqueAnchors(body) /\ arg = Page(body \o scripts)
ApplyFetchAllMessages ==
  /\ fn = "none"
  /\ fn' = "fetchAllMessages"
  /\ ret' = fetchAllMessages(arg)
  /\ UNCHANGED <<arg, mainVars>>
SpecParse == InitParse /\ [][ApplyFetchAllMessages]_vars

InitFormat == fn = "none" /\ arg \in GeneratedMessages /\ ret = <<>> /\ MainIdle
ApplyFormatNoteHtml ==
  /\ fn = "none"
  /\ fn' = "formatNoteHtml"
  /\ ret' = formatNoteHtml(arg)
  /\ UNCHANGED <<arg, mainVars>>
SpecFormat == InitFormat /\ [][ApplyFormatNoteHtml]_vars

InitFind ==
  /\ fn = "none"
  /\ arg \in [items : {ItemsOf(n) : n \in SeqsUpTo(Names, MaxItems)}, argv4 : Argv4s]
  /\ ret = <<>>
  /\ MainIdle
ApplyFindPerson ==
  /\ fn = "none"
  /\ fn' = "findPersonByFirstName"
  /\ ret' = FindItem(arg.items, contactPersonFirstName(arg.argv4))
  /\ UNCHANGED <<arg, mainVars>>
SpecFind == InitFind /\ [][ApplyFindPerson]_vars

\* ------------------------------------------------------------ configuration
\* SENDER_CONFIG[emailSender]; the option ids 0 stand for `undefined`
SenderConfig(emailSender) ==
  CASE emailSender = "info@cartom.lv" ->
         [known |-> TRUE, sourceChannelOptionId |-> 70, sourceCompanyOptionId |-> 47,
          dealTitlePrefix |-> <<"C">>]
    [] emailSender = "autoplacis@autotev.lv" ->
         [known |-> TRUE, sourceChannelOptionId |-> 68, sourceCompanyOptionId |-> 50,
          dealTitlePrefix |-> <<"T">>]
    [] emailSender = "sales@cartom.lv" ->
         [known |-> TRUE, sourceChannelOptionId |-> 69, sourceCompanyOptionId |-> 54,
          dealTitlePrefix |-> <<"S">>]
    [] OTHER ->
         [known |-> FALSE, sourceChannelOptionId |-> 0, sourceCompanyOptionId |-> 0,
          dealTitlePrefix |-> <<>>]
cfg == SenderConfig(env.emailSender)

ConversationUrl == <<"u">>
\* noteLink: the note that links back to the thread
noteLink == DivOpen \o <<"S", "S", ":">> \o ConversationUrl \o ConversationUrl \o DivClose
\* dealTitle: prefix, first name and the first ten characters of the opening text
dealTitle(firstName, firstMessage) ==
  cfg.dealTitlePrefix \o <<"-">> \o firstName \o <<"-">> \o Slice0(firstMessage.text, 10)

\* ------------------------------------------------------------ the record store
\* A person's, a deal's and a note's id is its position in the store's sequence.
\* GET /persons/search?term=..&exact_match=false: the persons whose name holds the
\* term, ignoring case, in the store's order
SearchPersons(term) ==
  LET hit(k) == Includes(ToLowerCase(persons[k]), ToLowerCase(term))
      RECURSIVE from(_)
      from(k) == IF k > Len(persons) THEN <<>>
                 ELSE IF hit(k) THEN <<[id |-> k, name |-> persons[k]]>> \o from(k + 1)
                 ELSE from(k + 1)
  IN  from(1)
\* GET /persons/{id}/deals: the ids of the person's deals, in the store's order
DealsOfPerson(personId) ==
  LET RECURSIVE from(_)
      from(k) == IF k > Len(deals) THEN <<>>
                 ELSE IF deals[k].person_id = personId THEN <<k>> \o from(k + 1)
                 ELSE from(k + 1)
  IN  from(1)
\* GET /notes?deal_id=: the contents of the deal's notes among the first n notes
NotesOfDealUpTo(dealId, n) ==
  LET RECURSIVE from(_)
      from(k) == IF k > n THEN <<>>
                 ELSE IF notes[k].deal_id = dealId THEN <<notes[k].content>> \o from(k + 1)
                 ELSE from(k + 1)
  IN  from(1)
NotesOfDeal(dealId) == NotesOfDealUpTo(dealId, Len(notes))
\* byId.get(fieldId): the key of a custom field, <<>> when the store has none
FieldKey(fieldId) ==
  IF \E f \in dealFields : f.id = fieldId
  THEN (CHOOSE f \in dealFields : f.id = fieldId).key
  ELSE <<>>

Request(method, path, id, content) ==
  [method |-> method, path |-> path, id |-> id, content |-> content]

\* ------------------------------------------------------------------ main
Runs == 1..MaxRuns
Finished == {"done", "failed"}

InitRun ==
  [messages |-> <<>>, sourceChannelKey |-> <<>>, sourceCompanyKey |-> <<>>,
   existingPerson |-> NullItem, personId |-> 0, dealId |-> 0,
   dealList |-> <<>>, dealIndex |-> 0, existingNotes |-> <<>>, messageIndex |-> 0,
   notesAdded |-> 0, resultAction |-> "", error |-> "", firstMessage |-> <<>>,
   fetched |-> FALSE, bodyRead |-> FALSE,
   personsBefore |-> 0, dealsBefore |-> 0, notesBefore |-> 0]

\* existingNotes.some((n) => (n.content || '').includes(text))
SomeNoteIncludesFirstOnly(existingNotes, text) ==
  existingNotes # <<>> /\ Includes(existingNotes[1], text)
SomeNoteIncludes(existingNotes, text) ==
  \E k \in 1..Len(existingNotes) : Includes(existingNotes[k], text)

\* alreadyAdded: some existing note of the deal includes the message's text
AlreadyAddedExactly(existingNotes, message) ==
  \E k \in 1..Len(existingNotes) : existingNotes[k] = formatNoteHtml(message)
AlreadyAddedByPrefix(existingNotes, message) ==
  SomeNoteIncludes(existingNotes, Slice0(message.text, 1))
AlreadyAdded(existingNotes, message) == SomeNoteIncludes(existingNotes, message.text)

\* the message whose text identifies the deal: messages[0]
LastMessage(messages) == messages[Len(messages)]
FirstMessage(messages) == messages[1]

\* the next message, from index i on, that no existing note includes; 0 when none
NextUnconditional(existingNotes, messages, i) == IF i <= Len(messages) THEN i ELSE 0
NextMissing(existingNotes, messages, i) ==
  LET missing == {k \in i..Len(messages) : ~AlreadyAdded(existingNotes, messages[k])}
  IN  IF missing = {} THEN 0 ELSE CHOOSE k \in missing : \A j \in missing : k <= j

\* where `if (!resultAction)` goes first: the person is created only when none exists
AlwaysCreatePerson(existingPerson) == "createPerson"
CreatePathEntry(existingPerson) ==
  IF existingPerson = NullItem THEN "createPerson" ELSE "createDeal"

Fail(r, msg) ==
  /\ pc' = [pc EXCEPT ![r] = "failed"]
  /\ run' = [run EXCEPT ![r].error = msg]

\* What stops a run before its first gateway call, "" when nothing does: the checks
\* at module load (process.exit(1)), then in main loadCookies, the fetch of the page
\* and its parse, and the test for an empty result.
SessionExpired == "SS.LV session expired - cookies are stale"
ConfigErrors ==
  {"Usage: node process.js", "Missing PIPEDRIVE_API_TOKEN environment variable",
   "Unsupported sender"}
NoCookies == "No cookies found. authenticate.js must run first."
StartErrorNoEmptyCheck ==
  LET res == fetchAllMessages(response)
  IN  IF env.emailSender = "" THEN "Usage: node process.js"
      ELSE IF ~env.apiToken THEN "Missing PIPEDRIVE_API_TOKEN environment variable"
      ELSE IF ~cfg.known THEN "Unsupported sender"
      ELSE IF ~env.cookies THEN NoCookies
      ELSE IF ~res.ok THEN res.error
      ELSE ""
StartErrorNoTokenCheck ==
  LET res == fetchAllMessages(response)
  IN  IF env.emailSender = "" THEN "Usage: node process.js"
      ELSE IF ~cfg.known THEN "Unsupported sender"
      ELSE IF ~env.cookies THEN NoCookies
      ELSE IF ~res.ok THEN res.error
      ELSE IF Len(res.messages) = 0 THEN "No messages found in conversation"
      ELSE ""
StartError ==
  LET res == fetchAllMessages(response)
  IN  IF env.emailSender = "" THEN "Usage: node process.js"
      ELSE IF ~env.apiToken THEN "Missing PIPEDRIVE_API_TOKEN environment variable"
      ELSE IF ~cfg.known THEN "Unsupported sender"
      ELSE IF ~env.cookies THEN NoCookies
      ELSE IF ~res.ok THEN res.error
      ELSE IF Len(res.messages) = 0 THEN "No messages found in conversation"
      ELSE ""

\* a run from its start to its first await of the gateway; `fetched` records that
\* the GET of the page was issued and `bodyRead` that response.text() was awaited
BeginRun(r) ==
  /\ pc[r] = "idle"
  /\ LET error == StartError
         fetched == error \notin ConfigErrors \cup {NoCookies}
         started == [run[r] EXCEPT !.fetched = fetched,
                                   !.bodyRead = fetched /\ error # SessionExpired,
                                   !.personsBefore = Len(persons),
                                   !.dealsBefore = Len(deals),
                                   !.notesBefore = Len(notes)]
     IN  IF error # ""
         THEN /\ pc' = [pc EXCEPT ![r] = "failed"]
              /\ run' = [run EXCEPT ![r] = [started EXCEPT !.error = error]]
         ELSE /\ pc' = [pc EXCEPT ![r] = "getDealFieldKeys"]
              /\ run' = [run EXCEPT ![r] =
                           [started EXCEPT !.messages = fetchAllMessages(response).messages]]
  /\ UNCHANGED <<storeVars, response, env, argv4, calls, pureVars>>

\* the runs of one caller: a run starts when the runs before it have ended
StartRun(r) ==
  /\ \A q \in 1..(r - 1) : pc[q] \in Finished
  /\ BeginRun(r)

\* step 3: getDealFieldKeys and the check of the two keys
GetDealFieldKeys(r) ==
  /\ pc[r] = "getDealFieldKeys"
  /\ calls' = [calls EXCEPT ![r] = Append(@, Request("GET", "/dealFields", 0, <<>>))]
  /\ IF FieldKey(SOURCE_CHANNEL_FIELD_ID) = <<>> \/ FieldKey(SOURCE_COMPANY_FIELD_ID) = <<>>
     THEN /\ pc' = [pc EXCEPT ![r] = "failed"]
          /\ run' = [run EXCEPT ![r].error = "Could not resolve custom deal field keys"]
     ELSE /\ pc' = [pc EXCEPT ![r] = "findPerson"]
          /\ run' = [run EXCEPT ![r].sourceChannelKey = FieldKey(SOURCE_CHANNEL_FIELD_ID),
                                ![r].sourceCompanyKey = FieldKey(SOURCE_COMPANY_FIELD_ID)]
  /\ UNCHANGED <<storeVars, response, env, argv4, pureVars>>

\* step 4: findPersonByFirstName(contactPersonFirstName)
FindPerson(r) ==
  /\ pc[r] = "findPerson"
  /\ LET firstName == contactPersonFirstName(argv4)
         existingPerson == FindItem(SearchPersons(firstName), firstName)
     IN  /\ calls' = [calls EXCEPT ![r] =
                        Append(@, Request("GET", "/persons/search", 0, firstName))]
         /\ run' = [run EXCEPT ![r].existingPerson = existingPerson,
                               ![r].personId = existingPerson.id]
         /\ pc' = [pc EXCEPT ![r] = IF existingPerson # NullItem THEN "getDeals"
                                    ELSE CreatePathEntry(existingPerson)]
  /\ UNCHANGED <<storeVars, response, env, argv4, pureVars>>

\* getDealsForPerson(personId) and the entry of the for loop over the deals
GetDealsForPersonUnlisted(r) ==
  /\ pc[r] = "getDeals"
  /\ run' = [run EXCEPT ![r].dealList = <<>>, ![r].dealIndex = 1]
  /\ pc' = [pc EXCEPT ![r] = CreatePathEntry(run[r].existingPerson)]
  /\ UNCHANGED <<storeVars, response, env, argv4, calls, pureVars>>
GetDealsForPerson(r) ==
  /\ pc[r] = "getDeals"
  /\ LET dealList == DealsOfPerson(run[r].personId)
     IN  /\ calls' = [calls EXCEPT ![r] =
                        Append(@, Request("GET", "/persons/deals", run[r].personId, <<>>))]
         /\ run' = [run EXCEPT ![r].dealList = dealList, ![r].dealIndex = 1]
         /\ pc' = [pc EXCEPT ![r] = IF dealList = <<>>
                                    THEN CreatePathEntry(run[r].existingPerson)
                                    ELSE "getNotes"]
  /\ UNCHANGED <<storeVars, response, env, argv4, pureVars>>

\* one turn of the for loop: getNotesForDeal(deal.id), the test for the opening
\* message and, in the matching deal, the messages up to the first missing one
GetNotesForDeal(r) ==
  /\ pc[r] = "getNotes"
  /\ LET deal == run[r].dealList[run[r].dealIndex]
         existingNotes == NotesOfDeal(deal)
         hasFirstMessage == SomeNoteIncludes(existingNotes, FirstMessage(run[r].messages).text)
         first == NextMissing(existingNotes, run[r].messages, 1)
     IN  /\ calls' = [calls EXCEPT ![r] = Append(@, Request("GET", "/notes", deal, <<>>))]
         /\ IF hasFirstMessage
            THEN /\ run' = [run EXCEPT ![r].existingNotes = existingNotes,
                                       ![r].dealId = deal,
                                       ![r].messageIndex = first,
                                       ![r].resultAction =
                                          IF first = 0 THEN "synced_notes_to_existing_deal"
                                          ELSE ""]
                 /\ pc' = [pc EXCEPT ![r] = IF first = 0 THEN "done" ELSE "addMissing"]
            ELSE /\ run' = [run EXCEPT ![r].existingNotes = existingNotes,
                                       ![r].dealIndex = @ + 1]
                 /\ pc' = [pc EXCEPT ![r] =
                             IF run[r].dealIndex < Len(run[r].dealList) THEN "getNotes"
                             ELSE CreatePathEntry(run[r].existingPerson)]
  /\ UNCHANGED <<storeVars, response, env, argv4, pureVars>>

\* addNote(dealId, formatNoteHtml(message)) for a missing message, and the loop on
\* to the next missing one
AddMissingNoteRechecking(r) ==
  /\ pc[r] = "addMissing"
  /\ LET message == run[r].messages[run[r].messageIndex]
         noteHtml == formatNoteHtml(message)
         next == NextMissing(run[r].existingNotes, run[r].messages, run[r].messageIndex + 1)
         present == SomeNoteIncludes(NotesOfDeal(run[r].dealId), message.text)
     IN  /\ notes' = IF present THEN notes
                     ELSE Append(notes, [deal_id |-> run[r].dealId, content |-> noteHtml])
         /\ calls' = [calls EXCEPT ![r] =
                        IF present THEN @
                        ELSE Append(@, Request("POST", "/notes", run[r].dealId, noteHtml))]
         /\ run' = [run EXCEPT ![r].notesAdded = IF present THEN @ ELSE @ + 1,
                               ![r].messageIndex = next,
                               ![r].resultAction =
                                  IF next = 0 THEN "synced_notes_to_existing_deal" ELSE ""]
         /\ pc' = [pc EXCEPT ![r] = IF next = 0 THEN "done" ELSE "addMissing"]
  /\ UNCHANGED <<persons, deals, dealFields, response, env, argv4, pureVars>>
AddMissingNote(r) ==
  /\ pc[r] = "addMissing"
  /\ LET message == run[r].messages[run[r].messageIndex]
         noteHtml == formatNoteHtml(message)
         next == NextMissing(run[r].existingNotes, run[r].messages, run[r].messageIndex + 1)
     IN  /\ notes' = Append(notes, [deal_id |-> run[r].dealId, content |-> noteHtml])
         /\ calls' = [calls EXCEPT ![r] =
                        Append(@, Request("POST", "/notes", run[r].dealId, noteHtml))]
         /\ run' = [run EXCEPT ![r].notesAdded = @ + 1,
                               ![r].messageIndex = next,
                               ![r].resultAction =
                                  IF next = 0 THEN "synced_notes_to_existing_deal" ELSE ""]
         /\ pc' = [pc EXCEPT ![r] = IF next = 0 THEN "done" ELSE "addMissing"]
  /\ UNCHANGED <<persons, deals, dealFields, response, env, argv4, pureVars>>

\* step 5: POST /persons with the full display name
CreatePerson(r) ==
  /\ pc[r] = "createPerson"
  /\ persons' = Append(persons, contactPersonName(argv4))
  /\ calls' = [calls EXCEPT ![r] =
                 Append(@, Request("POST", "/persons", 0, contactPersonName(argv4)))]
  /\ run' = [run EXCEPT ![r].personId = Len(persons) + 1]
  /\ pc' = [pc EXCEPT ![r] = "createDeal"]
  /\ UNCHANGED <<deals, notes, dealFields, response, env, argv4, pureVars>>

\* POST /deals
NewDeal(r) ==
  [person_id |-> run[r].personId,
   title |-> dealTitle(contactPersonFirstName(argv4), FirstMessage(run[r].messages)),
   channel |-> cfg.sourceChannelOptionId, company |-> cfg.sourceCompanyOptionId]
CreateDealNoLink(r) ==
  /\ pc[r] = "createDeal"
  /\ deals' = Append(deals, NewDeal(r))
  /\ calls' = [calls EXCEPT ![r] =
                 Append(@, Request("POST", "/deals", run[r].personId, NewDeal(r).title))]
  /\ run' = [run EXCEPT ![r].dealId = Len(deals) + 1, ![r].messageIndex = 1]
  /\ pc' = [pc EXCEPT ![r] = "addMessage"]
  /\ UNCHANGED <<persons, notes, dealFields, response, env, argv4, pureVars>>
CreateDeal(r) ==
  /\ pc[r] = "createDeal"
  /\ deals' = Append(deals, NewDeal(r))
  /\ calls' = [calls EXCEPT ![r] =
                 Append(@, Request("POST", "/deals", run[r].personId, NewDeal(r).title))]
  /\ run' = [run EXCEPT ![r].dealId = Len(deals) + 1]
  /\ pc' = [pc EXCEPT ![r] = "addLink"]
  /\ UNCHANGED <<persons, notes, dealFields, response, env, argv4, pureVars>>

\* addNote(dealId, noteLink)
AddLinkNoteOverwriting(r) ==
  /\ pc[r] = "addLink"
  /\ notes' = IF notes = <<>>
              THEN <<[deal_id |-> run[r].dealId, content |-> noteLink]>>
              ELSE [notes EXCEPT ![Len(notes)] = [deal_id |-> run[r].dealId, content |-> noteLink]]
  /\ calls' = [calls EXCEPT ![r] =
                 Append(@, Request("POST", "/notes", run[r].dealId, noteLink))]
  /\ run' = [run EXCEPT ![r].messageIndex = 1]
  /\ pc' = [pc EXCEPT ![r] = "addMessage"]
  /\ UNCHANGED <<persons, deals, dealFields, response, env, argv4, pureVars>>
AddLinkNoteWithOpening(r) ==
  /\ pc[r] = "addLink"
  /\ LET content == noteLink \o formatNoteHtml(FirstMessage(run[r].messages))
     IN  /\ notes' = Append(notes, [deal_id |-> run[r].dealId, content |-> content])
         /\ calls' = [calls EXCEPT ![r] =
                        Append(@, Request("POST", "/notes", run[r].dealId, content))]
  /\ run' = [run EXCEPT ![r].messageIndex = 1]
  /\ pc' = [pc EXCEPT ![r] = "addMessage"]
  /\ UNCHANGED <<persons, deals, dealFields, response, env, argv4, pureVars>>
AddLinkNote(r) ==
  /\ pc[r] = "addLink"
  /\ notes' = Append(notes, [deal_id |-> run[r].dealId, content |-> noteLink])
  /\ calls' = [calls EXCEPT ![r] =
                 Append(@, Request("POST", "/notes", run[r].dealId, noteLink))]
  /\ run' = [run EXCEPT ![r].messageIndex = 1]
  /\ pc' = [pc EXCEPT ![r] = "addMessage"]
  /\ UNCHANGED <<persons, deals, dealFields, response, env, argv4, pureVars>>

\* one turn of the loop that adds every message as a note
AddMessageNote(r) ==
  /\ pc[r] = "addMessage"
  /\ LET message == run[r].messages[run[r].messageIndex]
         noteHtml == formatNoteHtml(message)
         last == run[r].messageIndex = Len(run[r].messages)
     IN  /\ notes' = Append(notes, [deal_id |-> run[r].dealId, content |-> noteHtml])
         /\ calls' = [calls EXCEPT ![r] =
                        Append(@, Request("POST", "/notes", run[r].dealId, noteHtml))]
         /\ run' = [run EXCEPT ![r].notesAdded = @ + 1,
                               ![r].messageIndex = @ + 1,
                               ![r].resultAction = IF last THEN "created_new_deal" ELSE ""]
         /\ pc' = [pc EXCEPT ![r] = IF last THEN "done" ELSE "addMessage"]
  /\ UNCHANGED <<persons, deals, dealFields, response, env, argv4, pureVars>>

\* pdFetch throws: the response of the gateway is not ok, has no JSON body or says
\* success: false.  The request at the run's await point has no effect on the
\* store, the error propagates to main().catch and the process exits with 1.
GatewayPoints ==
  {"getDealFieldKeys", "findPerson", "getDeals", "getNotes", "addMissing",
   "createPerson", "createDeal", "addLink", "addMessage"}
PipedriveError == "Pipedrive API error"
GatewayFailsRollback(r) ==
  /\ pc[r] \in GatewayPoints
  /\ Fail(r, PipedriveError)
  /\ persons' = SubSeq(persons, 1, run[r].personsBefore)
  /\ deals' = SubSeq(deals, 1, run[r].dealsBefore)
  /\ notes' = SubSeq(notes, 1, run[r].notesBefore)
  /\ UNCHANGED <<dealFields, response, env, argv4, calls, pureVars>>
GatewayFails(r) ==
  /\ pc[r] \in GatewayPoints
  /\ Fail(r, PipedriveError)
  /\ UNCHANGED <<storeVars, response, env, argv4, calls, pureVars>>

\* ------------------------------------------------------- runs of main, in turn
\* the decimal digits of n > 0
RECURSIVE Digits(_)
Digits(n) ==
  LET d == <<"0", "1", "2", "3", "4", "5", "6", "7", "8", "9">>
  IN  IF n < 10 THEN <<d[n + 1]>> ELSE Append(Digits(n \div 10), d[(n % 10) + 1])

\* A conversation page for the texts ts, oldest first: message k has id 4k-1 (3, 7,
\* 11, ..), the blocks come newest first under one date header, odd messages are
\* received and even ones sent.
ThreadId(k) == Digits(4 * k - 1)
ThreadPage(ts) ==
  Page(<<DateEl(<<"M">>)>>
       \o [j \in 1..Len(ts) |->
             BlockEl(ThreadId(Len(ts) + 1 - j), <<"1">>,
                     IF (Len(ts) + 1 - j) % 2 = 0 THEN SentColor ELSE OtherColor)]
       \o [k \in 1..Len(ts) |-> ScriptEl(ThreadId(k), ts[k])])

\* a note of the first-message variant of the script: a message with other markup
\* around it
FirstMessageNote(text) == noteLink \o DivOpen \o <<"F", ":">> \o text \o DivClose

AllFields ==
  {[id |-> SOURCE_CHANNEL_FIELD_ID, key |-> <<"k", "1">>],
   [id |-> SOURCE_COMPANY_FIELD_ID, key |-> <<"k", "2">>]}
StoredNames == {<<"J", "a">>, <<"J", "a", "b">>}
ContactArg == <<"j", "a", " ", "B">>

\* The store before the first run: up to two persons, up to two deals, each of a
\* stored person, and per deal any of the notes of InitContents.
InitContents == <<FirstMessageNote(<<"a">>), FirstMessageNote(<<"a", "b">>)>>
InitPersonLists == SeqsUpTo(StoredNames, 2)
InitOwnerLists(n) == SeqsUpTo(1..n, 2)
RECURSIVE InitNotes(_, _, _)
InitNotes(has, d, c) ==
  IF d > Len(has) THEN <<>>
  ELSE IF c > Len(InitContents) THEN InitNotes(has, d + 1, 1)
  ELSE (IF has[d][c] THEN <<[deal_id |-> d, content |-> InitContents[c]]>> ELSE <<>>)
         \o InitNotes(has, d, c + 1)

GoodEnv == [emailSender |-> "info@cartom.lv", apiToken |-> TRUE, cookies |-> TRUE]
\* other starts: another sender, an unknown or a missing one, no token, no cookies
OtherEnvs ==
  {[GoodEnv EXCEPT !.emailSender = e] : e \in {"sales@cartom.lv", "someone@else.lv", ""}}
    \cup {[GoodEnv EXCEPT !.apiToken = FALSE], [GoodEnv EXCEPT !.cookies = FALSE]}
\* a page whose only block has no _out_text directive
NoTextPage == Page(<<DateEl(<<"M">>), BlockEl(<<"3">>, <<"1">>, OtherColor)>>)
\* a page whose container has 50 characters and no message block
NoBlockPage == Page(<<DateEl(<<"M">>), DateEl(<<"T">>)>>)

\* a good start reconciles any thread against any of the stores
InitUsual ==
  /\ env = GoodEnv
  /\ dealFields = AllFields
  /\ \E ts \in SeqsUpTo(Texts, MaxMsgs) : response = ThreadPage(ts)
  /\ persons \in InitPersonLists
  /\ \E owners \in InitOwnerLists(Len(persons)) :
       deals = [k \in 1..Len(owners) |->
                  [person_id |-> owners[k], title |-> <<>>, channel |-> 0, company |-> 0]]
  /\ \E has \in [1..Len(deals) -> [1..Len(InitContents) -> BOOLEAN]] :
       notes = InitNotes(has, 1, 1)
\* the starts that fail, or differ in the sender, against a store without deals
InitOther ==
  /\ env \in OtherEnvs \cup {GoodEnv}
  /\ dealFields \in {AllFields, {f \in AllFields : f.id = SOURCE_CHANNEL_FIELD_ID}}
  /\ response \in FailingPages
                    \cup {NoTextPage, NoBlockPage, ThreadPage(<< <<"a">> >>),
                          [ThreadPage(<< <<"a">> >>) EXCEPT !.loginUrl = TRUE]}
  /\ persons \in {<<>>, << <<"J", "a">> >>}
  /\ deals = <<>> /\ notes = <<>>

Init ==
  /\ fn = "none" /\ arg = <<>> /\ ret = <<>>
  /\ argv4 = ContactArg
  /\ InitUsual \/ InitOther
  /\ pc = [r \in Runs |-> "idle"]
  /\ run = [r \in Runs |-> InitRun]
  /\ calls = [r \in Runs |-> <<>>]

Next ==
  \E r \in Runs :
    \/ StartRun(r)
    \/ GetDealFieldKeys(r)
    \/ FindPerson(r)
    \/ GetDealsForPerson(r)
    \/ GetNotesForDeal(r)
    \/ AddMissingNote(r)
    \/ CreatePerson(r)
    \/ CreateDeal(r)
    \/ AddLinkNote(r)
    \/ AddMessageNote(r)

Spec == Init /\ [][Next]_vars

\* ------------------------------------------- runs against a gateway that may fail
\* a good start against a store of at most one person with at most one deal
InitFail ==
  /\ fn = "none" /\ arg = <<>> /\ ret = <<>>
  /\ argv4 = ContactArg
  /\ env = GoodEnv
  /\ dealFields = AllFields
  /\ \E ts \in SeqsUpTo(Texts, MaxMsgs) : ts # <<>> /\ response = ThreadPage(ts)
  /\ persons \in {<<>>, << <<"J", "a">> >>}
  /\ \E n \in 0..Len(persons) :
       deals = [k \in 1..n |-> [person_id |-> 1, title |-> <<>>, channel |-> 0, company |-> 0]]
  /\ \E has \in [1..Len(deals) -> [1..Len(InitContents) -> BOOLEAN]] :
       notes = InitNotes(has, 1, 1)
  /\ pc = [r \in Runs |-> "idle"]
  /\ run = [r \in Runs |-> InitRun]
  /\ calls = [r \in Runs |-> <<>>]

NextFail == Next \/ \E r \in Runs : GatewayFails(r)

SpecFail == InitFail /\ [][NextFail]_vars

\* --------------------------------------------------- two runs at the same time
\* Two processes started on the same thread: nothing orders their steps, each
\* await of one may be followed by a step of the other.
Racers == {1, 2}
NextRace ==
  \E r \in Racers :
    \/ BeginRun(r)
    \/ GetDealFieldKeys(r)
    \/ FindPerson(r)
    \/ GetDealsForPerson(r)
    \/ GetNotesForDeal(r)
    \/ AddMissingNote(r)
    \/ CreatePerson(r)
    \/ CreateDeal(r)
    \/ AddLinkNote(r)
    \/ AddMessageNote(r)

SpecRace == InitFail /\ [][NextRace]_vars

\* ------------------------------------------ repeated attempts on one thread
\* The script is started again and again on the same thread while any of its
\* gateway requests may fail: a good start against a store without the contact,
\* or with the contact and a deal of theirs that holds a note of another
\* conversation.
Attempts == 1..MaxAttempts
InitAbort ==
  /\ fn = "none" /\ arg = <<>> /\ ret = <<>>
  /\ argv4 = ContactArg
  /\ env = GoodEnv
  /\ dealFields = AllFields
  /\ \E ts \in SeqsUpTo(Texts, MaxMsgs) : ts # <<>> /\ response = ThreadPage(ts)
  /\ persons \in {<<>>, << <<"J", "a">> >>}
  /\ deals = [k \in 1..Len(persons) |->
                [person_id |-> 1, title |-> <<>>, channel |-> 0, company |-> 0]]
  /\ notes = [k \in 1..Len(persons) |->
                [deal_id |-> 1, content |-> FirstMessageNote(<<"b">>)]]
  /\ pc = [r \in Attempts |-> "idle"]
  /\ run = [r \in Attempts |-> InitRun]
  /\ calls = [r \in Attempts |-> <<>>]

NextAbort ==
  \E r \in Attempts :
    \/ StartRun(r)
    \/ GetDealFieldKeys(r)
    \/ FindPerson(r)
    \/ GetDealsForPerson(r)
    \/ GetNotesForDeal(r)
    \/ AddMissingNote(r)
    \/ CreatePerson(r)
    \/ CreateDeal(r)
    \/ AddLinkNote(r)
    \/ AddMessageNote(r)
    \/ GatewayFails(r)

SpecAbort == InitAbort /\ [][NextAbort]_vars

\* ------------------------------------------- the first-message variant of main
\* src/process.js scrapes one message, the first block of the page, and leaves one
\* note per run.  Its gateway helpers getDealFieldKeys, findPersonByFirstName and
\* getDealsForPerson and the creation of the person are those of the script above.

\* fetchFirstMessage, from the response of the fetch on
FirstFailure(msg) == [ok |-> FALSE, error |-> msg, firstMessage |-> <<>>]
fetchFirstMessage(resp) ==
  IF resp.loginUrl THEN FirstFailure(SessionExpired)
  ELSE IF ~resp.hasChatDiv THEN FirstFailure("Could not find chat div in HTML")
  ELSE IF ChatLength(resp.chat) < ChatMinLength THEN FirstFailure("Chat div is empty")
  ELSE LET blocks == PositionsFrom(resp.chat, "block", 1)
       IN  IF blocks = <<>> THEN FirstFailure("Could not parse any messages")
           ELSE LET firstMessage == MessageTexts(resp.chat, resp.chat[blocks[1]].id)
                IN  IF firstMessage = <<>> THEN FirstFailure("First message text is empty")
                    ELSE [ok |-> TRUE, error |-> "", firstMessage |-> firstMessage]

\* notes.some((n) => (n.content || '').includes(firstMessage.slice(0, 50)))
dealHasFirstMessageNoteWhole(existingNotes, firstMessage) ==
  SomeNoteIncludes(existingNotes, firstMessage)
dealHasFirstMessageNote(existingNotes, firstMessage) ==
  SomeNoteIncludes(existingNotes, Slice0(firstMessage, FirstMessagePrefix))

\* `${noteLink}<div><b>Latest SS message:</b> ${firstMessage}</div>`
LatestNote(text) == noteLink \o DivOpen \o <<"L", ":">> \o text \o DivClose

AddedNote == "added_note_to_existing_deal"

\* What stops a run of the variant before its first gateway call: the checks at
\* module load, loadCookies, and fetchFirstMessage.
FirstStartError ==
  IF env.emailSender = "" THEN "Usage: node process.js"
  ELSE IF ~cfg.known THEN "Unsupported sender"
  ELSE IF ~env.cookies THEN NoCookies
  ELSE fetchFirstMessage(response).error

\* a run of the variant starts when the runs before it have ended
StartProcess(r) ==
  /\ pc[r] = "idle"
  /\ \A q \in 1..(r - 1) : pc[q] \in Finished
  /\ LET error == FirstStartError
         fetched == error \notin ConfigErrors \cup {NoCookies}
         started == [run[r] EXCEPT !.fetched = fetched,
                                   !.bodyRead = fetched /\ error # SessionExpired,
                                   !.personsBefore = Len(persons),
                                   !.dealsBefore = Len(deals),
                                   !.notesBefore = Len(notes)]
     IN  IF error # ""
         THEN /\ pc' = [pc EXCEPT ![r] = "failed"]
              /\ run' = [run EXCEPT ![r] = [started EXCEPT !.error = error]]
         ELSE /\ pc' = [pc EXCEPT ![r] = "getDealFieldKeys"]
              /\ run' = [run EXCEPT ![r] =
                           [started EXCEPT !.firstMessage =
                                             fetchFirstMessage(response).firstMessage]]
  /\ UNCHANGED <<storeVars, response, env, argv4, calls, pureVars>>

\* one turn of the for loop over the deals: dealHasFirstMessageNote(deal.id,
\* firstMessage)
DealHasFirstMessageNote(r) ==
  /\ pc[r] = "getNotes"
  /\ LET deal == run[r].dealList[run[r].dealIndex]
     IN  /\ calls' = [calls EXCEPT ![r] = Append(@, Request("GET", "/notes", deal, <<>>))]
         /\ IF dealHasFirstMessageNote(NotesOfDeal(deal), run[r].firstMessage)
            THEN /\ run' = [run EXCEPT ![r].dealId = deal]
                 /\ pc' = [pc EXCEPT ![r] = "addLatest"]
            ELSE /\ run' = [run EXCEPT ![r].dealIndex = @ + 1]
                 /\ pc' = [pc EXCEPT ![r] =
                             IF run[r].dealIndex < Len(run[r].dealList) THEN "getNotes"
                             ELSE CreatePathEntry(run[r].existingPerson)]
  /\ UNCHANGED <<storeVars, response, env, argv4, pureVars>>

\* noteId = await addNote(dealId, latestNote), and the break out of the loop
AddLatestNote(r) ==
  /\ pc[r] = "addLatest"
  /\ notes' = Append(notes, [deal_id |-> run[r].dealId,
                             content |-> LatestNote(run[r].firstMessage)])
  /\ calls' = [calls EXCEPT ![r] =
                 Append(@, Request("POST", "/notes", run[r].dealId,
                                   LatestNote(run[r].firstMessage)))]
  /\ run' = [run EXCEPT ![r].resultAction = AddedNote]
  /\ pc' = [pc EXCEPT ![r] = "done"]
  /\ UNCHANGED <<persons, deals, dealFields, response, env, argv4, pureVars>>

\* POST /deals of the variant
FirstDeal(r) ==
  [person_id |-> run[r].personId,
   title |-> dealTitle(contactPersonFirstName(argv4), [text |-> run[r].firstMessage]),
   channel |-> cfg.sourceChannelOptionId, company |-> cfg.sourceCompanyOptionId]
CreateFirstDeal(r) ==
  /\ pc[r] = "createDeal"
  /\ deals' = Append(deals, FirstDeal(r))
  /\ calls' = [calls EXCEPT ![r] =
                 Append(@, Request("POST", "/deals", run[r].personId, FirstDeal(r).title))]
  /\ run' = [run EXCEPT ![r].dealId = Len(deals) + 1]
  /\ pc' = [pc EXCEPT ![r] = "addFirstNote"]
  /\ UNCHANGED <<persons, notes, dealFields, response, env, argv4, pureVars>>

\* noteId = await addNote(dealId, firstMessageNote)
AddFirstMessageNote(r) ==
  /\ pc[r] = "addFirstNote"
  /\ notes' = Append(notes, [deal_id |-> run[r].dealId,
                             content |-> FirstMessageNote(run[r].firstMessage)])
  /\ calls' = [calls EXCEPT ![r] =
                 Append(@, Request("POST", "/notes", run[r].dealId,
                                   FirstMessageNote(run[r].firstMessage)))]
  /\ run' = [run EXCEPT ![r].resultAction = "created_new_deal"]
  /\ pc' = [pc EXCEPT ![r] = "done"]
  /\ UNCHANGED <<persons, deals, dealFields, response, env, argv4, pureVars>>

\* a text of one character more than the prefix that the duplicate check looks for
LongText(last) ==
  [i \in 1..(FirstMessagePrefix + 1) |-> IF i <= FirstMessagePrefix THEN "x" ELSE last]
FirstTexts == {<<"a">>, LongText("y"), LongText("z")}
\* what a deal may hold before the first run: the first-message notes of two other
\* conversations, one of which opens with the same 50 characters
FirstContents == <<FirstMessageNote(<<"a">>), FirstMessageNote(LongText("z"))>>
RECURSIVE FirstNotes(_, _, _)
FirstNotes(has, d, c) ==
  IF d > Len(has) THEN <<>>
  ELSE IF c > Len(FirstContents) THEN FirstNotes(has, d + 1, 1)
  ELSE (IF has[d][c] THEN <<[deal_id |-> d, content |-> FirstContents[c]]>> ELSE <<>>)
         \o FirstNotes(has, d, c + 1)

\* any thread, or a page that cannot be used, against a store of at most one stored
\* person with at most two deals
InitFirst ==
  /\ fn = "none" /\ arg = <<>> /\ ret = <<>>
  /\ argv4 = ContactArg
  /\ env \in {GoodEnv, [GoodEnv EXCEPT !.cookies = FALSE]}
  /\ dealFields = AllFields
  /\ \/ \E ts \in SeqsUpTo(FirstTexts, MaxMsgs) : ts # <<>> /\ response = ThreadPage(ts)
     \/ response \in {NoTextPage, NoBlockPage}
  /\ persons \in {<<>>, << <<"J", "a">> >>}
  /\ \E n \in 0..(2 * Len(persons)) :
       deals = [k \in 1..n |-> [person_id |-> 1, title |-> <<>>, channel |-> 0, company |-> 0]]
  /\ \E has \in [1..Len(deals) -> [1..Len(FirstContents) -> BOOLEAN]] :
       notes = FirstNotes(has, 1, 1)
  /\ pc = [r \in Runs |-> "idle"]
  /\ run = [r \in Runs |-> InitRun]
  /\ calls = [r \in Runs |-> <<>>]

NextFirst ==
  \E r \in Runs :
    \/ StartProcess(r)
    \/ GetDealFieldKeys(r)
    \/ FindPerson(r)
    \/ GetDealsForPerson(r)
    \/ DealHasFirstMessageNote(r)
    \/ AddLatestNote(r)
    \/ CreatePerson(r)
    \/ CreateFirstDeal(r)
    \/ AddFirstMessageNote(r)

SpecFirst == InitFirst /\ [][NextFirst]_vars

\* ------------------------------------------------------------------ claims
\* the position of the block a parsed message came from (anchors are unique)
BlockPosition(chat, id) == CHOOSE p \in 1..Len(chat) : chat[p].kind = "block" /\ chat[p].id = id
\* the date headers whose offset precedes position p
DatesBefore(chat, p) == {q \in 1..(p - 1) : chat[q].kind = "date"}
NearestDate(chat, p) ==
  IF DatesBefore(chat, p) = {} THEN UnknownDate
  ELSE Trim(chat[CHOOSE q \in DatesBefore(chat, p) : \A o \in DatesBefore(chat, p) : o <= q].text)
\* the ids of the blocks of a container, in document order
BlockIdsInOrder(chat) == [k \in 1..Len(PositionsFrom(chat, "block", 1)) |->
                            chat[PositionsFrom(chat, "block", 1)[k]].id]

\* C8: whatever the document order of the message blocks, fetchAllMessages returns
\* messages whose ids are pairwise distinct and strictly ascending by numeric value.
C8_StrictlyAscendingIds ==
  (fn = "fetchAllMessages" /\ ret.ok) =>
    \A i, j \in 1..Len(ret.messages) :
      i < j => ParseInt(ret.messages[i].id) < ParseInt(ret.messages[j].id)
\* three messages parsed from a page whose blocks come in the order 10, 5, 3
C8_Witness ==
  /\ fn = "fetchAllMessages" /\ ret.ok
  /\ Len(ret.messages) = 3
  /\ BlockIdsInOrder(arg.chat) = << <<"1", "0">>, <<"5">>, <<"3">> >>

\* C9: every parsed message carries the text of the nearest date header whose
\* offset precedes its block, and 'Unknown date' exactly when no header precedes it.
C9_NearestPrecedingDate ==
  (fn = "fetchAllMessages" /\ ret.ok) =>
    \A i \in 1..Len(ret.messages) :
      ret.messages[i].date = NearestDate(arg.chat, BlockPosition(arg.chat, ret.messages[i].id))

\* C10: formatNoteHtml(m) contains m.text as a contiguous substring.
C10_FormatContainsText ==
  fn = "formatNoteHtml" => Includes(ret, arg.text)
\* a received message with a two-character text has been formatted
C10_Witness ==
  fn = "formatNoteHtml" /\ arg.direction = "received" /\ Len(arg.text) = 2
    /\ arg.date = UnknownDate

\* the first token of a name: its longest prefix without a space
IsFirstToken(t, name) ==
  /\ Len(t) <= Len(name) /\ SubSeq(name, 1, Len(t)) = t
  /\ \A i \in 1..Len(t) : t[i] # " "
  /\ (Len(t) = Len(name) \/ name[Len(t) + 1] = " ")
SameIgnoringCase(a, b) ==
  Len(a) = Len(b) /\ \A i \in 1..Len(a) : LowerChar(a[i]) = LowerChar(b[i])
\* item k of the search result qualifies for the display name
Qualifies(items, k, display) ==
  \E t \in {SubSeq(items[k].name, 1, n) : n \in 0..Len(items[k].name)},
     f \in {SubSeq(display, 1, n) : n \in 0..Len(display)} :
    IsFirstToken(t, items[k].name) /\ IsFirstToken(f, display) /\ SameIgnoringCase(t, f)

\* C6: findPersonByFirstName returns the first item of the search result whose
\* name's first token equals, ignoring case, the first token of the display name,
\* and none when no item qualifies; a prefix or an extension of it never matches.
C6_FirstExactTokenMatch ==
  fn = "findPersonByFirstName" =>
    LET display == contactPersonName(arg.argv4)
        q == {k \in 1..Len(arg.items) : Qualifies(arg.items, k, display)}
    IN  IF q = {} THEN ret = NullItem
        ELSE \E k \in q : ret = arg.items[k] /\ \A j \in q : k <= j
\* "J" and "Jab" come before "ja B" in the result and "ja B" is returned for "JA b"
C6_Witness ==
  /\ fn = "findPersonByFirstName"
  /\ arg.argv4 = <<"J", "A", " ", "b">>
  /\ Len(arg.items) = 3
  /\ arg.items[1].name = <<"J">> /\ arg.items[2].name = <<"J", "a", "b">>
  /\ ret = arg.items[3] /\ ret.name = <<"j", "a", " ", "B">>

\* -------------------------------------------------------- claims about main
Synced == "synced_notes_to_existing_deal"
Created == "created_new_deal"
\* run r is the latest run and it has completed
LastDone(r) == pc[r] = "done" /\ \A q \in Runs : q > r => pc[q] = "idle"
\* the requests of run r with the given method and path, in the order issued
RequestsOf(r, method, path) ==
  SelectSeq(calls[r], LAMBDA c : c.method = method /\ c.path = path)
Writes(r) == SelectSeq(calls[r], LAMBDA c : c.method = "POST")
\* the k-th smallest element of a finite set of numbers
KthOf(S, k) == CHOOSE i \in S : Cardinality({j \in S : j <= i}) = k
AscendingIds(messages) ==
  \A i, j \in 1..Len(messages) : i < j => ParseInt(messages[i].id) < ParseInt(messages[j].id)
\* the notes deal d had when run r started, as positions in the store
NotesBefore(r, d) == {k \in 1..run[r].notesBefore : notes[k].deal_id = d}
\* some note deal d had when run r started contains the text
ContainedBefore(r, d, text) == \E k \in NotesBefore(r, d) : Includes(notes[k].content, text)

\* C1: a run that follows a completed run on the same thread, the store otherwise
\* untouched, reports synced_notes_to_existing_deal with notesAdded = 0, issues no
\* create request, leaves the store as it found it and reports the same dealId and
\* personId.
C1_SecondRunAddsNothing ==
  \A r \in Runs :
    (r > 1 /\ pc[r - 1] = "done" /\ pc[r] = "done") =>
      /\ run[r].resultAction = Synced
      /\ run[r].notesAdded = 0
      /\ Writes(r) = <<>>
      /\ run[r].dealId = run[r - 1].dealId
      /\ run[r].personId = run[r - 1].personId
      /\ LastDone(r) => /\ Len(persons) = run[r].personsBefore
                        /\ Len(deals) = run[r].dealsBefore
                        /\ Len(notes) = run[r].notesBefore
\* the first run created a person and a deal for two messages, the second is done
C1_Witness ==
  /\ pc[1] = "done" /\ pc[2] = "done"
  /\ run[1].resultAction = Created /\ run[1].existingPerson = NullItem
  /\ Len(run[1].messages) = 2

\* the notes of the store that are the formatted note of a message of run r with
\* the given text
MessageNotes(r, text) ==
  {k \in 1..Len(notes) :
     \E j \in 1..Len(run[r].messages) :
       run[r].messages[j].text = text /\ notes[k].content = formatNoteHtml(run[r].messages[j])}
\* C2: after one or more successful runs in turn, every distinct message text of the
\* thread is held by a note of the reported deal (never zero) and by at most one
\* message note (never more than one).
C2_ExactlyOnce ==
  ((\E r \in Runs : pc[r] = "done") /\ (\A r \in Runs : pc[r] \in {"idle", "done"})) =>
    \A r \in Runs :
      pc[r] = "done" =>
        \A i \in 1..Len(run[r].messages) :
          /\ \E k \in 1..Len(notes) :
               /\ notes[k].deal_id = run[r].dealId
               /\ Includes(notes[k].content, run[r].messages[i].text)
          /\ Cardinality(MessageNotes(r, run[r].messages[i].text)) <= 1

\* the messages of run r whose text no note of the reported deal held at the start
MissingBefore(r) ==
  {i \in 1..Len(run[r].messages) :
     ~ContainedBefore(r, run[r].dealId, run[r].messages[i].text)}
C4_CreateAppendsAll ==
  \A r \in Runs :
    (pc[r] = "done" /\ run[r].resultAction = Created) =>
      LET n == Len(run[r].messages)
          d == run[r].dealId
          notePosts == RequestsOf(r, "POST", "/notes")
          base == run[r].notesBefore
      IN  /\ AscendingIds(run[r].messages)
          /\ Len(RequestsOf(r, "POST", "/deals")) = 1
          /\ d = run[r].dealsBefore + 1 /\ deals[d].person_id = run[r].personId
          /\ run[r].notesAdded = n
          /\ Len(notePosts) = n + 1
          /\ Len(Writes(r)) = Len(RequestsOf(r, "POST", "/persons")) + 1 + Len(notePosts)
          /\ Writes(r)[Len(Writes(r)) - Len(notePosts)].path = "/deals"
          /\ \A k \in 1..Len(notePosts) :
               Writes(r)[Len(Writes(r)) - Len(notePosts) + k] = notePosts[k]
          /\ notePosts[1] = Request("POST", "/notes", d, noteLink)
          /\ notes[base + 1] = [deal_id |-> d, content |-> noteLink]
          /\ \A i \in 1..n :
               /\ notePosts[i + 1] =
                    Request("POST", "/notes", d, formatNoteHtml(run[r].messages[i]))
               /\ notes[base + 1 + i] =
                    [deal_id |-> d, content |-> formatNoteHtml(run[r].messages[i])]
          /\ {k \in 1..(base + n + 1) : notes[k].deal_id = d} = (base + 1)..(base + n + 1)
          /\ LastDone(r) => Cardinality({k \in 1..Len(notes) : notes[k].deal_id = d}) = n + 1
\* a deal with three notes was created for two messages of an existing person, the
\* page listing the newer message first
C4_Witness ==
  /\ pc[1] = "done" /\ run[1].resultAction = Created
  /\ run[1].existingPerson # NullItem
  /\ Len(run[1].messages) = 2
  /\ BlockIdsInOrder(response.chat) = <<run[1].messages[2].id, run[1].messages[1].id>>
  /\ Len(notes) = run[1].notesBefore + 3

\* the deals the matched person had when run r started, in the gateway's order
Listing(r) == {d \in 1..run[r].dealsBefore : deals[d].person_id = run[r].existingPerson.id}
\* the opening message: the one with the lowest id
Opening(r) ==
  CHOOSE m \in {run[r].messages[i] : i \in 1..Len(run[r].messages)} :
    \A i \in 1..Len(run[r].messages) : ParseInt(m.id) <= ParseInt(run[r].messages[i].id)
Owning(r) == {d \in Listing(r) : ContainedBefore(r, d, Opening(r).text)}
Fetched(r) == RequestsOf(r, "GET", "/notes")
\* C5: with a contact found, the owning deal is the first listed deal with a note
\* containing the opening text; the notes of no later deal are fetched; with no
\* such deal the run takes the create path.
C5_FirstOwningDeal ==
  \A r \in Runs :
    (pc[r] = "done" /\ run[r].existingPerson # NullItem) =>
      /\ \A i, j \in 1..Len(Fetched(r)) : i < j => Fetched(r)[i].id < Fetched(r)[j].id
      /\ IF Owning(r) # {}
         THEN LET first == CHOOSE d \in Owning(r) : \A e \in Owning(r) : d <= e
              IN  /\ run[r].dealId = first
                  /\ run[r].resultAction = Synced
                  /\ {Fetched(r)[i].id : i \in 1..Len(Fetched(r))}
                       = {d \in Listing(r) : d <= first}
         ELSE /\ run[r].resultAction = Created
              /\ run[r].dealId \notin Listing(r)
              /\ {Fetched(r)[i].id : i \in 1..Len(Fetched(r))} = Listing(r)
\* two deals of the contact hold the opening text; the first is taken and the notes
\* of the second are never fetched
C5_Witness ==
  /\ pc[1] = "done" /\ run[1].existingPerson # NullItem
  /\ Cardinality(Owning(1)) = 2
  /\ Len(Fetched(1)) = 1
  /\ run[1].dealId = Fetched(1)[1].id

\* C7: a run creates a contact exactly when matching found none (and it then takes
\* the create path), and never more than one; with a contact found and no owning
\* deal the new deal goes to the found contact, whose id is the personId reported.
C7_ContactCreatedIffNone ==
  \A r \in Runs :
    pc[r] = "done" =>
      LET created == Len(RequestsOf(r, "POST", "/persons"))
      IN  /\ created <= 1
          /\ created = 1 <=> (run[r].existingPerson = NullItem /\ run[r].resultAction = Created)
          /\ LastDone(r) => Len(persons) = run[r].personsBefore + created
          /\ created = 1 => /\ run[r].personId = run[r].personsBefore + 1
                            /\ persons[run[r].personId] = contactPersonName(argv4)
          /\ (run[r].existingPerson # NullItem /\ run[r].resultAction = Created) =>
               /\ run[r].personId = run[r].existingPerson.id
               /\ run[r].personId <= run[r].personsBefore
               /\ deals[run[r].dealId].person_id = run[r].existingPerson.id
\* the contact existed with a deal that does not hold the opening message: a deal is
\* created for that contact and no person is
C7_Witness ==
  /\ pc[1] = "done" /\ run[1].resultAction = Created
  /\ run[1].existingPerson # NullItem
  /\ Listing(1) # {}
  /\ Len(persons) = run[1].personsBefore
  /\ deals[Len(deals)].person_id = run[1].existingPerson.id

\* ------------------------------------------------- claims about failing parses
\* the container holds no message block at all
NoBlock(chat) == \A p \in 1..Len(chat) : chat[p].kind # "block"
\* the characters of the container, counted element by element
Characters(chat) ==
  LET RECURSIVE upTo(_)
      upTo(n) == IF n = 0 THEN 0 ELSE upTo(n - 1) + ElemLength(chat[n])
  IN  upTo(Len(chat))

\* C11 as stated: fetchAllMessages fails with an error when the container cannot be
\* located, when its content is shorter than 50 characters, and when no message
\* block can be matched in it.
C11_ParseFailsInThreeCases ==
  (fn = "fetchAllMessages" /\ ~arg.loginUrl) =>
    ((~arg.hasChatDiv \/ Characters(arg.chat) < 50 \/ NoBlock(arg.chat)) => ~ret.ok)
\* C11 amended: fetchAllMessages fails with 'Could not find chat div in HTML' when
\* the container cannot be located and with 'Chat div is empty' when its content is
\* shorter than 50 characters; a located container of 50 characters or more in
\* which no block matches makes it return an empty list of messages, no error.
C11_ParseFailsInTwoCases ==
  (fn = "fetchAllMessages" /\ ~arg.loginUrl) =>
    /\ ~arg.hasChatDiv => (~ret.ok /\ ret.error = "Could not find chat div in HTML")
    /\ (arg.hasChatDiv /\ Characters(arg.chat) < 50) =>
         (~ret.ok /\ ret.error = "Chat div is empty")
    /\ (arg.hasChatDiv /\ Characters(arg.chat) >= 50 /\ NoBlock(arg.chat)) =>
         (ret.ok /\ ret.messages = <<>>)
    /\ ~ret.ok => (~arg.hasChatDiv \/ Characters(arg.chat) < 50)
\* a container of two date headers and a directive, without a block, was parsed
C11_Witness ==
  /\ fn = "fetchAllMessages" /\ ret.ok /\ ret.messages = <<>>
  /\ arg.hasChatDiv /\ NoBlock(arg.chat) /\ Len(arg.chat) = 3
  /\ Characters(arg.chat) >= 50

\* ------------------------------------------ claims about runs that abort early
\* the text the page gives message id: that of the last directive naming the id
TextOf(chat, id) ==
  IF \E k \in 1..Len(chat) : chat[k].kind = "script" /\ chat[k].id = id
  THEN chat[CHOOSE k \in 1..Len(chat) :
              /\ chat[k].kind = "script" /\ chat[k].id = id
              /\ \A j \in (k + 1)..Len(chat) : ~(chat[j].kind = "script" /\ chat[j].id = id)].text
  ELSE <<>>
\* the blocks of the container that yield a message
Usable(chat) == {p \in 1..Len(chat) : chat[p].kind = "block" /\ TextOf(chat, chat[p].id) # <<>>}
\* the page has no container, a container that is too short, or yields no message
Unparsable(resp) ==
  ~resp.hasChatDiv \/ Characters(resp.chat) < 50 \/ Usable(resp.chat) = {}
ParseErrors ==
  {"Could not find chat div in HTML", "Chat div is empty", "No messages found in conversation"}
\* run r has left the store as it found it
StoreAsFound(r) ==
  /\ Len(persons) = run[r].personsBefore
  /\ Len(deals) = run[r].dealsBefore
  /\ Len(notes) = run[r].notesBefore

\* C12: a run whose page has no chat container, a too short one, or yields zero
\* messages ends in an error without having issued any gateway request, and the
\* store is as it was.
C12_AbortsBeforeGateway ==
  \A r \in Runs :
    (pc[r] # "idle" /\ Unparsable(response)) =>
      /\ pc[r] = "failed" /\ run[r].error # ""
      /\ (run[r].bodyRead => run[r].error \in ParseErrors)
      /\ calls[r] = <<>>
      /\ StoreAsFound(r)
\* both runs failed on the page whose only block has no text, a person being stored
C12_Witness ==
  /\ response = NoTextPage /\ persons # <<>>
  /\ \A r \in Runs : pc[r] = "failed" /\ run[r].error = "No messages found in conversation"

\* C13: when the fetch ends on a login page the run fails with the session-expired
\* error, whatever the body holds, before the body is read and before any gateway
\* request; the error is none of the parse errors, which in turn never arise from a
\* login page.
C13_SessionExpiredFirst ==
  \A r \in Runs :
    /\ (run[r].fetched /\ response.loginUrl) =>
         /\ pc[r] = "failed" /\ run[r].error = SessionExpired
         /\ ~run[r].bodyRead
         /\ calls[r] = <<>> /\ StoreAsFound(r)
    /\ run[r].error = SessionExpired => (response.loginUrl /\ run[r].error \notin ParseErrors)
    /\ run[r].error \in ParseErrors => ~response.loginUrl
\* the login redirect came with a body that holds a whole conversation
C13_Witness ==
  /\ pc[1] = "failed" /\ run[1].error = SessionExpired
  /\ response.hasChatDiv /\ Usable(response.chat) # {}

KeyMissing ==
  \E id \in {SOURCE_CHANNEL_FIELD_ID, SOURCE_COMPANY_FIELD_ID} : \A f \in dealFields : f.id # id
\* C19: with an unknown sender or no API token the run ends in an error before the
\* page is fetched and before any gateway request; with a custom deal-field key
\* that cannot be resolved it ends in an error after the field lookup alone: no
\* contact search, no create request, the store as it was.
C19_ConfigurationErrorsFirst ==
  \A r \in Runs :
    /\ (pc[r] # "idle" /\ (~env.apiToken \/ ~SenderConfig(env.emailSender).known)) =>
         /\ pc[r] = "failed" /\ run[r].error \in ConfigErrors
         /\ ~run[r].fetched /\ calls[r] = <<>> /\ StoreAsFound(r)
    /\ (pc[r] \notin {"idle", "getDealFieldKeys"} /\ KeyMissing) =>
         /\ pc[r] = "failed"
         /\ calls[r] \in {<<>>, <<Request("GET", "/dealFields", 0, <<>>)>>}
         /\ StoreAsFound(r)
    /\ run[r].error = "Could not resolve custom deal field keys" =>
         (KeyMissing /\ Len(calls[r]) = 1)
\* the company field is not among the deal fields: the run stopped after the lookup
C19_Witness ==
  /\ pc[1] = "failed" /\ run[1].error = "Could not resolve custom deal field keys"
  /\ calls[1] = <<Request("GET", "/dealFields", 0, <<>>)>>
  /\ persons # <<>>

\* ------------------------------------------------ claims about what a run keeps
\* sequence s is the start of sequence t
StartOf(s, t) == Len(s) <= Len(t) /\ SubSeq(t, 1, Len(s)) = s
\* C14: every step of a run leaves every stored contact, deal and note as it was
\* and only adds to them, so that a deal's notes after a run include its notes
\* before; the deal fields are never written.
C14_AppendOnly ==
  [][/\ StartOf(persons, persons') /\ StartOf(deals, deals') /\ StartOf(notes, notes')
     /\ dealFields' = dealFields
     /\ \A d \in 1..Len(deals) :
          \A k \in 1..Len(NotesOfDeal(d)) :
            \E j \in 1..Len(notes') : notes'[j] = [deal_id |-> d, content |-> NotesOfDeal(d)[k]]]_vars
\* a run added a note to the second of two deals, both of which had notes
C14_Witness ==
  /\ pc[1] = "done" /\ run[1].resultAction = Synced /\ run[1].notesAdded = 1
  /\ Len(deals) = 2 /\ run[1].dealId = 2
  /\ NotesBefore(1, 1) # {} /\ NotesBefore(1, 2) # {}
  /\ Len(notes) = run[1].notesBefore + 1

\* C15: a block whose id has no directive, or an empty one, is left out and the
\* parse succeeds; the result holds exactly the blocks whose id maps to a non-empty
\* text, each with that text.
C15_SkipsBlocksWithoutText ==
  (fn = "fetchAllMessages" /\ ~arg.loginUrl /\ arg.hasChatDiv /\ Characters(arg.chat) >= 50) =>
    /\ ret.ok
    /\ Len(ret.messages) = Cardinality(Usable(arg.chat))
    /\ {ret.messages[i].id : i \in 1..Len(ret.messages)}
         = {arg.chat[p].id : p \in Usable(arg.chat)}
    /\ \A i \in 1..Len(ret.messages) :
         /\ ret.messages[i].text # <<>>
         /\ ret.messages[i].text = TextOf(arg.chat, ret.messages[i].id)
\* of three blocks one has no directive, one has an empty directive after a full
\* one, and the third is the one message returned
C15_Witness ==
  /\ fn = "fetchAllMessages" /\ ret.ok /\ Len(ret.messages) = 1
  /\ Len(BlockIdsInOrder(arg.chat)) = 3
  /\ \E p \in 1..Len(arg.chat) :
       /\ arg.chat[p].kind = "block"
       /\ \A k \in 1..Len(arg.chat) : ~(arg.chat[k].kind = "script" /\ arg.chat[k].id = arg.chat[p].id)
  /\ \E k, j \in 1..Len(arg.chat) :
       /\ k < j /\ arg.chat[k].kind = "script" /\ arg.chat[j].kind = "script"
       /\ arg.chat[k].id = arg.chat[j].id /\ arg.chat[k].text # <<>> /\ arg.chat[j].text = <<>>

\* the store holds what each create request of run r created
Kept(r) ==
  \A k \in 1..Len(Writes(r)) :
    LET c == Writes(r)[k]
    IN  CASE c.path = "/persons" -> \E j \in 1..Len(persons) : persons[j] = c.content
          [] c.path = "/deals" ->
               \E j \in 1..Len(deals) : deals[j].person_id = c.id /\ deals[j].title = c.content
          [] c.path = "/notes" ->
               \E j \in 1..Len(notes) : notes[j] = [deal_id |-> c.id, content |-> c.content]
\* C16: the step in which a gateway request of a run fails ends the run with an
\* error and changes nothing in the store; from then on the run issues no request
\* and takes no step, and what it had created stays in the store.
C16_FailFastNoRollback ==
  [][\A r \in Runs :
       /\ (pc[r] \in GatewayPoints /\ pc'[r] = "failed") =>
            /\ run'[r].error # ""
            /\ calls'[r] = calls[r]
            /\ persons' = persons /\ deals' = deals /\ notes' = notes
       /\ pc[r] = "failed" => (pc'[r] = "failed" /\ calls'[r] = calls[r] /\ run'[r] = run[r])
       /\ pc'[r] = "failed" => Kept(r)']_vars
\* the first run failed after it had created a person, a deal and two notes, and the
\* next run has ended
C16_Witness ==
  /\ pc[1] = "failed" /\ run[1].error = PipedriveError
  /\ Len(RequestsOf(1, "POST", "/persons")) = 1
  /\ Len(RequestsOf(1, "POST", "/deals")) = 1
  /\ Len(RequestsOf(1, "POST", "/notes")) = 2
  /\ Kept(1)
  /\ pc[2] = "done"

\* ------------------------------------------------- claims about a run's requests
\* the positions in the request log of run r of the requests to a path
At(r, method, path) ==
  {k \in 1..Len(calls[r]) : calls[r][k].method = method /\ calls[r][k].path = path}
\* C18: the requests of a run come one at a time in program order: the field-key
\* lookup, the contact search, the deal listing if a contact matched, the notes of
\* the scanned deals in listing order, and only then the create requests: the
\* contact if none matched, the deal, the link note, the message notes.
C18_ProgramOrder ==
  \A r \in Runs :
    LET c == calls[r]
        n == Len(c)
        posts == {k \in 1..n : c[k].method = "POST"}
    IN  /\ At(r, "GET", "/dealFields") = {k \in {1} : n >= 1}
        /\ At(r, "GET", "/persons/search") = {k \in {2} : n >= 2}
        /\ At(r, "GET", "/persons/deals") \subseteq {3}
        /\ n >= 3 => (c[3] = Request("GET", "/persons/deals", run[r].existingPerson.id, <<>>)
                        <=> run[r].existingPerson # NullItem)
        /\ \A k \in At(r, "GET", "/notes") :
             /\ k >= 4 /\ k - 3 <= Len(run[r].dealList)
             /\ c[k].id = run[r].dealList[k - 3]
             /\ \A j \in 4..k : j \in At(r, "GET", "/notes")
        /\ \A k \in posts : \A j \in k..n : j \in posts
        /\ Cardinality(At(r, "POST", "/persons")) <= 1
        /\ Cardinality(At(r, "POST", "/deals")) <= 1
        /\ \A k \in At(r, "POST", "/persons") :
             run[r].existingPerson = NullItem /\ k = 3 /\ (n > k => c[k + 1].path = "/deals")
        /\ \A k \in At(r, "POST", "/deals") :
             /\ \A j \in posts : j < k => c[j].path = "/persons"
             /\ run[r].existingPerson # NullItem =>
                  (3 \in At(r, "GET", "/persons/deals")
                   /\ Cardinality(At(r, "GET", "/notes")) = Len(run[r].dealList))
             /\ n > k => c[k + 1] = Request("POST", "/notes", run[r].dealId, noteLink)
             /\ \A j \in (k + 1)..n : c[j].path = "/notes"
        /\ (At(r, "POST", "/notes") # {} /\ At(r, "POST", "/deals") = {}) =>
             \E g \in At(r, "GET", "/notes") :
               /\ c[g].id = run[r].dealId
               /\ \A k \in (g + 1)..n : c[k].method = "POST" /\ c[k].id = run[r].dealId
        /\ pc[r] \in {"idle", "failed", "done"} \cup GatewayPoints
\* the contact had two deals, neither the owning one: lookup, search, listing, two
\* note listings, then the deal, the link note and two message notes
C18_Witness ==
  /\ pc[1] = "done"
  /\ [k \in 1..Len(calls[1]) |-> calls[1][k].path] =
       <<"/dealFields", "/persons/search", "/persons/deals", "/notes", "/notes",
         "/deals", "/notes", "/notes", "/notes">>

\* C20: after a run that ends well, on either path, every message of the thread
\* has its text inside the content of a note of the deal the run reports.
C20_EveryMessageContained ==
  \A r \in Runs :
    pc[r] = "done" =>
      /\ run[r].dealId \in 1..Len(deals)
      /\ \A i \in 1..Len(run[r].messages) :
           \E k \in 1..Len(notes) :
             /\ notes[k].deal_id = run[r].dealId
             /\ Includes(notes[k].content, run[r].messages[i].text)
\* the deal held the opening message only, inside other markup; the run added the
\* second message, whose text starts with the opening one
C20_Witness ==
  /\ pc[1] = "done" /\ run[1].resultAction = Synced
  /\ Len(run[1].messages) = 2 /\ run[1].notesAdded = 1
  /\ run[1].messages[2].text # run[1].messages[1].text
  /\ Includes(run[1].messages[2].text, run[1].messages[1].text)
  /\ ~ContainedBefore(1, run[1].dealId, run[1].messages[2].text)

\* ------------------------------------------------ claims about concurrent runs
\* the messages of run r that no note it fetched from its deal includes
MissingWhenRead(r) ==
  {i \in 1..Len(run[r].messages) :
     ~SomeNoteIncludes(run[r].existingNotes, run[r].messages[i].text)}
\* the notes of deal d that are the formatted message m
CopiesOf(d, m) ==
  {k \in 1..Len(notes) : notes[k] = [deal_id |-> d, content |-> formatNoteHtml(m)]}
\* C17: of two runs on the same thread with no order between their steps, each
\* acts on what it read and never on what the other has written since: a sync run
\* posts every message missing from the notes it fetched, a create run creates its
\* own deal with all the notes.  So a message missing for both is appended twice
\* to the deal, and two create runs leave two deals for the thread.
C17_NeitherRunSeesTheOther ==
  \A r \in Racers :
    pc[r] = "done" =>
      /\ run[r].resultAction = Synced =>
           /\ run[r].notesAdded = Cardinality(MissingWhenRead(r))
           /\ \A k \in 1..Cardinality(MissingWhenRead(r)) :
                Writes(r)[k] =
                  Request("POST", "/notes", run[r].dealId,
                          formatNoteHtml(run[r].messages[KthOf(MissingWhenRead(r), k)]))
      /\ run[r].resultAction = Created =>
           Len(RequestsOf(r, "POST", "/notes")) = Len(run[r].messages) + 1
      /\ \A q \in Racers \ {r} :
           pc[q] = "done" =>
             /\ (run[r].resultAction = Synced /\ run[q].resultAction = Synced
                   /\ run[r].dealId = run[q].dealId) =>
                  \A i \in MissingWhenRead(r) \cap MissingWhenRead(q) :
                    Cardinality(CopiesOf(run[r].dealId, run[r].messages[i])) >= 2
             /\ (run[r].resultAction = Created /\ run[q].resultAction = Created) =>
                  /\ run[r].dealId # run[q].dealId
                  /\ \A i \in 1..Len(run[r].messages) :
                       /\ CopiesOf(run[r].dealId, run[r].messages[i]) # {}
                       /\ CopiesOf(run[q].dealId, run[r].messages[i]) # {}
\* both runs fetched the notes of the deal before either posted: the second message
\* of the thread, missing for both, is in the deal twice
C17_Witness ==
  /\ pc[1] = "done" /\ pc[2] = "done"
  /\ run[1].resultAction = Synced /\ run[2].resultAction = Synced
  /\ run[1].dealId = run[2].dealId
  /\ Len(run[1].messages) = 2
  /\ run[1].messages[1].text # run[1].messages[2].text
  /\ Cardinality(CopiesOf(run[1].dealId, run[1].messages[2])) = 2

\* ------------------------------------------- claims about repeated attempts
\* attempt r was aborted by a failing gateway request
Aborted(r) == pc[r] = "failed" /\ run[r].error = PipedriveError
\* an earlier attempt than r was aborted
AfterAbort(r) == \E q \in 1..(r - 1) : Aborted(q)
\* C21: once one or more attempts on a thread were aborted at some gateway request,
\* an attempt that then completes leaves the text of every message inside a note
\* of the deal it reports, and every attempt that completes after it reports the
\* same deal and contact, adds no note and issues no create request.
C21_ConvergesAfterAborts ==
  \A r \in Attempts :
    (pc[r] = "done" /\ AfterAbort(r)) =>
      /\ run[r].dealId \in 1..Len(deals)
      /\ \A i \in 1..Len(run[r].messages) :
           \E k \in 1..Len(notes) :
             /\ notes[k].deal_id = run[r].dealId
             /\ Includes(notes[k].content, run[r].messages[i].text)
      /\ \A s \in Attempts :
           (s > r /\ pc[s] = "done") =>
             /\ run[s].resultAction = Synced
             /\ run[s].notesAdded = 0
             /\ Writes(s) = <<>>
             /\ run[s].dealId = run[r].dealId
             /\ run[s].personId = run[r].personId
\* the first attempt was aborted after it had created the deal and the note of the
\* opening message, the second appended the missing message, the third found
\* nothing to add
C21_Witness ==
  /\ Aborted(1) /\ pc[2] = "done" /\ pc[3] = "done"
  /\ Len(RequestsOf(1, "POST", "/deals")) = 1
  /\ Len(RequestsOf(1, "POST", "/notes")) = 2
  /\ Len(run[2].messages) = 2
  /\ run[2].resultAction = Synced /\ run[2].notesAdded = 1
  /\ run[2].dealId = RequestsOf(1, "POST", "/notes")[1].id
  /\ run[3].notesAdded = 0

\* attempt q took the create path and was aborted after POST /deals and before the
\* note of the opening message, whose text the link note does not contain
Orphaned(q) ==
  /\ Aborted(q)
  /\ Len(RequestsOf(q, "POST", "/deals")) = 1
  /\ Len(RequestsOf(q, "POST", "/notes")) <= 1
  /\ ~Includes(noteLink, FirstMessage(run[q].messages).text)
\* the first attempt after q that completes
NextDone(q, r) == r > q /\ pc[r] = "done" /\ \A p \in (q + 1)..(r - 1) : pc[p] # "done"
\* no later attempt takes the deal of the aborted attempt q as the owning deal, and
\* that deal holds its link note or nothing
OrphanLeftAlone(q) ==
  /\ \A r \in Attempts : r > q => run[r].dealId # run[q].dealId
  /\ Cardinality({k \in 1..Len(notes) : notes[k].deal_id = run[q].dealId}) <= 1
  /\ \A k \in 1..Len(notes) : notes[k].deal_id = run[q].dealId => notes[k].content = noteLink
\* the attempts between q and r that were aborted after they had created a deal
\* and appended the opening message's note to it
CreatedBetween(q, r) ==
  {p \in (q + 1)..(r - 1) :
     /\ Len(RequestsOf(p, "POST", "/deals")) = 1
     /\ Len(RequestsOf(p, "POST", "/notes")) >= 2}
\* C22 as stated: after an attempt that was aborted between the creation of its deal
\* and the note of the opening message (the opening text not being part of the link
\* note), no later run selects that deal, the deal keeps at most its link note, and
\* the next run that completes creates a second deal.
C22_NextSuccessfulRunCreates ==
  \A q \in Attempts :
    Orphaned(q) =>
      /\ OrphanLeftAlone(q)
      /\ \A r \in Attempts :
           NextDone(q, r) =>
             /\ run[r].resultAction = Created
             /\ Len(RequestsOf(r, "POST", "/deals")) = 1
\* C22, amended: after such an attempt no later run selects that deal and the deal
\* keeps at most its link note; the next run that completes reports a second deal,
\* created after the first: it creates that deal itself, unless an aborted attempt
\* in between has created one and appended the opening message's note to it, and
\* then it syncs to that one.
C22_NextSuccessfulRunReportsSecondDeal ==
  \A q \in Attempts :
    Orphaned(q) =>
      /\ OrphanLeftAlone(q)
      /\ \A r \in Attempts :
           NextDone(q, r) =>
             /\ run[r].dealId > run[q].dealId
             /\ run[r].dealId \in 1..Len(deals)
             /\ deals[run[r].dealId].title = deals[run[q].dealId].title
             /\ IF CreatedBetween(q, r) = {}
                THEN /\ run[r].resultAction = Created
                     /\ Len(RequestsOf(r, "POST", "/deals")) = 1
                ELSE /\ run[r].resultAction = Synced
                     /\ Writes(r) = SelectSeq(Writes(r), LAMBDA c : c.path = "/notes")
                     /\ \E p \in CreatedBetween(q, r) : run[r].dealId = run[p].dealId
\* the first attempt was aborted with its deal created and the link note posted, the
\* second created a second deal for the two messages and completed; the first deal
\* holds the link note alone
C22_Witness ==
  /\ Orphaned(1) /\ Len(RequestsOf(1, "POST", "/notes")) = 1
  /\ pc[2] = "done" /\ run[2].resultAction = Created
  /\ Len(run[2].messages) = 2
  /\ run[2].dealId = run[1].dealId + 1
  /\ Cardinality({k \in 1..Len(notes) : notes[k].deal_id = run[1].dealId}) = 1
  /\ pc[3] = "done" /\ run[3].dealId = run[2].dealId

\* ------------------------------------- claims about the first-message variant
\* the deals of the matched contact, as listed when run r started, one of whose
\* notes held the first 50 characters of the first message
Matching(r) ==
  {d \in Listing(r) : ContainedBefore(r, d, Slice0(run[r].firstMessage, FirstMessagePrefix))}
FirstMatching(r) == CHOOSE d \in Matching(r) : \A o \in Matching(r) : d <= o
\* the note run r of the variant has stored
NoteOf(r) == notes[run[r].notesBefore + 1]
\* C23: every completed run of the first-message variant stores exactly one note.
\* If the matched contact has a deal with a note that contains the first 50
\* characters of the first message, the run's only write is the 'Latest SS message'
\* note on the first such deal and it reports added_note_to_existing_deal;
\* otherwise it creates one deal (and the contact if none matched) with the
\* 'First SS message' note as its one note.  A run after a completed run on the
\* same page adds one more note to the same deal.
C23_OneNotePerRun ==
  \A r \in Runs :
    pc[r] = "done" =>
      /\ Len(RequestsOf(r, "POST", "/notes")) = 1
      /\ LastDone(r) => Len(notes) = run[r].notesBefore + 1
      /\ IF Matching(r) # {}
         THEN /\ run[r].resultAction = AddedNote
              /\ run[r].dealId = FirstMatching(r)
              /\ Writes(r) = <<Request("POST", "/notes", FirstMatching(r),
                                       LatestNote(run[r].firstMessage))>>
              /\ NoteOf(r) = [deal_id |-> FirstMatching(r),
                              content |-> LatestNote(run[r].firstMessage)]
              /\ LastDone(r) => /\ Len(deals) = run[r].dealsBefore
                                /\ Len(persons) = run[r].personsBefore
         ELSE /\ run[r].resultAction = Created
              /\ Len(RequestsOf(r, "POST", "/deals")) = 1
              /\ Len(RequestsOf(r, "POST", "/persons")) =
                   (IF run[r].existingPerson = NullItem THEN 1 ELSE 0)
              /\ run[r].dealId = run[r].dealsBefore + 1
              /\ NoteOf(r) = [deal_id |-> run[r].dealId,
                              content |-> FirstMessageNote(run[r].firstMessage)]
              /\ LastDone(r) =>
                   /\ Len(deals) = run[r].dealsBefore + 1
                   /\ Cardinality({k \in 1..Len(notes) : notes[k].deal_id = run[r].dealId}) = 1
      /\ (r > 1 /\ pc[r - 1] = "done") =>
           /\ run[r].resultAction = AddedNote
           /\ run[r].dealId = run[r - 1].dealId
           /\ run[r].personId = run[r - 1].personId
           /\ NoteOf(r).deal_id = NoteOf(r - 1).deal_id
           /\ run[r].notesBefore = run[r - 1].notesBefore + 1
\* the first message has 51 characters; the contact's first deal does not match, the
\* second holds a note of another conversation that opens with the same 50
\* characters: both runs added a 'Latest SS message' note to the second deal
C23_Witness ==
  /\ pc[1] = "done" /\ pc[2] = "done"
  /\ Len(run[1].firstMessage) = FirstMessagePrefix + 1
  /\ Matching(1) = {2}
  /\ ~ContainedBefore(1, 2, run[1].firstMessage)
  /\ run[1].resultAction = AddedNote /\ run[2].resultAction = AddedNote
  /\ run[2].dealId = 2
  /\ Cardinality({k \in 1..Len(notes) :
                    notes[k] = [deal_id |-> 2, content |-> LatestNote(run[1].firstMessage)]}) = 2

====
